---- MODULE Spec2Model ----
(***************************************************************************)
(* ParcelFinder: parcels of 4-connected plots in a grid and their          *)
(* perimeters.  The model follows src/src/ParcelFinder.ts (entry point     *)
(* computeParcelPerimeters) and src/src/ParcelFinder.js (entry point       *)
(* render); the variable variant says which of the two modules runs.       *)
(*                                                                         *)
(* A JavaScript string is a sequence of one-character strings.  An element *)
(* of the input array is a record [isString, chars]; the input itself is a *)
(* record [tag, elems] where tag is "array", "string" or "undefined" and   *)
(* elems holds the indexed items (.length is Len(elems)).                  *)
(***************************************************************************)
EXTENDS Integers, Sequences, FiniteSets, TLC

VARIABLES variant, points, pc, err, idx, parsedPoints, maxX, maxY,
          gridBuilt, grid, x, y, stack, seen, openEdges, perimeters, result,
          expanded, traces,
          caller, argv, exitCode, stdout, stderr,
          gridSize, touched, popLog

vars == <<variant, points, pc, err, idx, parsedPoints, maxX, maxY,
          gridBuilt, grid, x, y, stack, seen, openEdges, perimeters, result,
          expanded, traces,
          caller, argv, exitCode, stdout, stderr,
          gridSize, touched, popLog>>

\* the state of the command-line wrapper: who called the entry point, the
\* arguments of the process, its exit status (-1 while it runs) and the lines
\* written to the two streams
wrapperVars == <<caller, argv, exitCode, stdout, stderr>>

\* the record of what the grid code did: the lengths the grid was allocated
\* with (columns, cells per column), the index pairs the latest grid step
\* read or wrote, and one entry per pop of the current trace
accessVars == <<gridSize, touched, popLog>>

(***************************************************************************)
(* Program constants                                                       *)
(***************************************************************************)
TYPE_ERROR_MSG == "Point coordinates must be an array of strings in the form \"x,y\""

RANGE_ERROR_MSG == "Point coordinates values must be in the range 0 to 99"

MAX_VALUE == 99

\* messages the JavaScript runtime produces when the TS module is handed a
\* value that has no forEach / no match method
NO_FOREACH_MSG == "points.forEach is not a function"

NO_MATCH_MSG == "point.match is not a function"

\* the texts of the command-line wrapper
USAGE_MSG == "ERROR: A list of points is required in the form x1,y1, x2,y2"

ERROR_FORMAT == "ERROR: %s"

NO_PARCELS_MSG == "There are no parcels defined"

ONE_PARCEL_MSG == "There is 1 parcel with a perimeter of ${perimeters[0]}"

PARCELS_MSG == "There are ${perimeters.length} parcels with perimeters of ${perimeters.join(',')}"

(***************************************************************************)
(* Bounds of the model                                                     *)
(***************************************************************************)
MaxShapeX == 2

MaxLen == 4

MaxList == 2

MaxOrderLen == 4

MaxArgs == 2

MaxLiveX == 1

(***************************************************************************)
(* Characters, regular expression, parseInt, join                          *)
(***************************************************************************)
DigitChars == <<"0", "1", "2", "3", "4", "5", "6", "7", "8", "9">>

IsDigit(c) == \E k \in 1..10 : DigitChars[k] = c

IsSpace(c) == c \in {" ", "\t", "\n", "\r"}

DigitVal(c) == (CHOOSE k \in 1..10 : DigitChars[k] = c) - 1

\* first index >= k of s that does not hold a digit (the greedy \d+)
RECURSIVE SkipDigits(_, _)
SkipDigits(s, k) ==
  IF k <= Len(s) /\ IsDigit(s[k]) THEN SkipDigits(s, k + 1) ELSE k

\* first index >= k of s that does not hold white space (the greedy \s*)
RECURSIVE SkipSpaces(_, _)
SkipSpaces(s, k) ==
  IF k <= Len(s) /\ IsSpace(s[k]) THEN SkipSpaces(s, k + 1) ELSE k

\* the match of a pattern that wrongly lets white space precede the first
\* number: /^\s*(\d+)\s*,\s*(\d+)$/
MatchLeadingSpace(s) ==
  LET a == SkipSpaces(s, 1)
      b == SkipDigits(s, a)
      c == SkipSpaces(s, b)
      d == SkipSpaces(s, c + 1)
      e == SkipDigits(s, d)
      ok == /\ b > a
            /\ c <= Len(s) /\ s[c] = ","
            /\ e > d
            /\ e = Len(s) + 1
  IN  IF ok THEN [ok |-> TRUE, g1 |-> SubSeq(s, a, b - 1), g2 |-> SubSeq(s, d, e - 1)]
            ELSE [ok |-> FALSE, g1 |-> <<>>, g2 |-> <<>>]

\* point.match(/^(\d+)\s*,\s*(\d+)$/): ok is "coords is not null", g1 and g2
\* are coords[1] and coords[2].  The character classes of the pattern are
\* disjoint, so the greedy scan never backtracks.
Match(s) ==
  LET b == SkipDigits(s, 1)
      c == SkipSpaces(s, b)
      d == SkipSpaces(s, c + 1)
      e == SkipDigits(s, d)
      ok == /\ b > 1
            /\ c <= Len(s) /\ s[c] = ","
            /\ e > d
            /\ e = Len(s) + 1
  IN  IF ok THEN [ok |-> TRUE, g1 |-> SubSeq(s, 1, b - 1), g2 |-> SubSeq(s, d, e - 1)]
            ELSE [ok |-> FALSE, g1 |-> <<>>, g2 |-> <<>>]

\* parseInt(s, 10) of a non-empty string of digits
RECURSIVE ParseInt(_)
ParseInt(s) ==
  IF s = <<>> THEN 0
  ELSE ParseInt(SubSeq(s, 1, Len(s) - 1)) * 10 + DigitVal(s[Len(s)])

\* String(n) of an integer
RECURSIVE NumStr(_)
NumStr(n) ==
  IF n < 0 THEN <<"-">> \o NumStr(0 - n)
  ELSE IF n < 10 THEN <<DigitChars[n + 1]>>
  ELSE NumStr(n \div 10) \o <<DigitChars[(n % 10) + 1]>>

\* [px, py].join(' '), the key of the seen set
Key(px, py) == NumStr(px) \o <<" ">> \o NumStr(py)

(***************************************************************************)
(* Inputs                                                                  *)
(***************************************************************************)
Str(s) == [isString |-> TRUE, chars |-> s]

\* an element that is a number, as in render([0, 0])
NumElem == [isString |-> FALSE, chars |-> <<>>]

ArrayOf(elems) == [tag |-> "array", elems |-> elems]

\* a string handed in place of the array: its indexed items are its characters
StringInput(s) == [tag |-> "string", elems |-> [k \in 1..Len(s) |-> Str(<<s[k]>>)]]

\* render() with no argument
Undefined == [tag |-> "undefined", elems |-> <<>>]

CoordStr(c) == NumStr(c[1]) \o <<",">> \o NumStr(c[2])

\* (x, then y) order of cells
CellLess(a, b) == a[1] < b[1] \/ (a[1] = b[1] /\ a[2] < b[2])

MinCell(S) == CHOOSE m \in S : \A o \in S : o = m \/ CellLess(m, o)

RECURSIVE AscSeq(_)
AscSeq(S) == IF S = {} THEN <<>> ELSE <<MinCell(S)>> \o AscSeq(S \ {MinCell(S)})

Reverse(s) == [k \in 1..Len(s) |-> s[Len(s) + 1 - k]]

ShapeYs == 0..2

ShapeCells == (0..MaxShapeX) \X ShapeYs

CoordList(cells) == [k \in 1..Len(cells) |-> Str(CoordStr(cells[k]))]

\* every non-empty set of plots of the small grid, listed in ascending and in
\* descending order
ShapeInputs ==
  { ArrayOf(CoordList(AscSeq(S))) : S \in (SUBSET ShapeCells) \ {{}} }
    \cup { ArrayOf(CoordList(Reverse(AscSeq(S)))) : S \in (SUBSET ShapeCells) \ {{}} }

OrderCells == (0..1) \X ShapeYs

\* every list of up to MaxOrderLen plots of a 2 by 3 grid, in every order and
\* with every repetition
OrderInputs ==
  { ArrayOf(CoordList(l)) : l \in UNION { [1..k -> OrderCells] : k \in 1..MaxOrderLen } }

LiveCells == (0..MaxLiveX) \X ShapeYs

\* every non-empty set of plots of a narrower grid, ascending and descending
LiveInputs ==
  { ArrayOf(CoordList(AscSeq(S))) : S \in (SUBSET LiveCells) \ {{}} }
    \cup { ArrayOf(CoordList(Reverse(AscSeq(S)))) : S \in (SUBSET LiveCells) \ {{}} }

\* the words of a command line: coordinates of the tests, an empty word, and
\* words that validation refuses
ArgWords ==
  { <<"0", ",", "0">>, <<"0", ",", "1">>, <<"1", ",", "1">>, <<"2", ",", "0">>,
    <<"1", "0", "0", ",", "0">>, <<"0", " ", "0">>, <<"x", ",", "y">>, <<>> }

\* process.argv: the interpreter, the script, and up to MaxArgs words
ArgVectors ==
  { <<Str(<<"n", "o", "d", "e">>), Str(<<"m", "a", "i", "n">>)>> \o [k \in 1..Len(l) |-> Str(l[k])] :
      l \in UNION { [1..n -> ArgWords] : n \in 0..MaxArgs } }

Alphabet == {"0", "9", " ", ",", "-", "x"}

Strings(n) == UNION { [1..k -> Alphabet] : k \in 0..n }

\* the inputs of the repository's tests, and strings around the range limit
SampleStrings ==
  { <<"0", ",", "0">>, <<"5", ",", "5">>, <<"9", "9", ",", "9", "9">>,
    <<"9", "9", ",", "0">>, <<"0", ",", "9", "9">>, <<"9", "9", ",", "5">>,
    <<"1", "0", "0", ",", "0">>, <<"0", ",", "1", "0", "0">>,
    <<"1", "0", "0", ",", "x">>,
    <<"0", " ", "0">>, <<"x", ",", "y">>, <<"-", "1", ",", "0">>,
    <<" ", "0", ",", "0">>, <<"0", ",", "0", " ">>, <<"0", " ", ",", " ", "1">>,
    <<"0", ".", "5", ",", "1">> }

ListElems ==
  { Str(<<"0", ",", "0">>), Str(<<"1", ",", "1">>), Str(<<"1", "0", "0", ",", "0">>),
    Str(<<"0", " ", "0">>), Str(<<"-", "1", ",", "0">>), NumElem }

Lists(n) == UNION { [1..k -> ListElems] : k \in 2..n }

ParseInputs ==
  { ArrayOf(<<Str(s)>>) : s \in Strings(MaxLen) \cup SampleStrings }
    \cup { ArrayOf(<<NumElem>>), ArrayOf(<<>>), Undefined,
           StringInput(<<"0", ",", "0">>), StringInput(<<>>) }
    \cup { ArrayOf(l) : l \in Lists(MaxList) }

(***************************************************************************)
(* Initial states                                                          *)
(***************************************************************************)
InitWith(inputs) ==
  /\ variant \in {"ts", "js"}
  /\ points \in inputs
  /\ pc = "call"
  /\ err = [kind |-> "none", message |-> ""]
  /\ idx = 0
  /\ parsedPoints = <<>>
  /\ maxX = -1
  /\ maxY = -1
  /\ gridBuilt = FALSE
  /\ grid = {}
  /\ x = 0
  /\ y = 0
  /\ stack = <<>>
  /\ seen = {}
  /\ openEdges = 0
  /\ perimeters = <<>>
  /\ result = <<>>
  /\ expanded = {}
  /\ traces = <<>>
  /\ caller = "test"
  /\ argv = <<>>
  /\ exitCode = -1
  /\ stdout = <<>>
  /\ stderr = <<>>
  /\ gridSize = <<0, 0>>
  /\ touched = {}
  /\ popLog = <<>>

Init == InitWith(ShapeInputs)

InitParse == InitWith(ParseInputs)

InitOrder == InitWith(OrderInputs)

InitLive == InitWith(LiveInputs)

\* the start of the process: main.js loads the JS module, main.ts the TS one
InitMain ==
  /\ variant \in {"ts", "js"}
  /\ argv \in ArgVectors
  /\ caller = "main"
  /\ pc = "main"
  /\ points = Undefined
  /\ err = [kind |-> "none", message |-> ""]
  /\ idx = 0
  /\ parsedPoints = <<>>
  /\ maxX = -1
  /\ maxY = -1
  /\ gridBuilt = FALSE
  /\ grid = {}
  /\ x = 0
  /\ y = 0
  /\ stack = <<>>
  /\ seen = {}
  /\ openEdges = 0
  /\ perimeters = <<>>
  /\ result = <<>>
  /\ expanded = {}
  /\ traces = <<>>
  /\ exitCode = -1
  /\ stdout = <<>>
  /\ stderr = <<>>
  /\ gridSize = <<0, 0>>
  /\ touched = {}
  /\ popLog = <<>>

(***************************************************************************)
(* computeParcelPerimeters / render                                        *)
(***************************************************************************)
\* !points || !points.length
IsEmptyInput(p) == p.tag = "undefined" \/ Len(p.elems) = 0

\* the entry point without its guard for an empty input
ComputeNoEmptyGuard ==
  /\ pc = "call"
  /\ pc' = "parsePoints"
  /\ UNCHANGED wrapperVars
  /\ UNCHANGED accessVars
  /\ UNCHANGED <<variant, points, err, idx, parsedPoints, maxX, maxY, gridBuilt,
                 grid, x, y, stack, seen, openEdges, perimeters, result,
                 expanded, traces>>

\* the entry point up to its call of parsePoints
Compute ==
  /\ pc = "call"
  /\ IF IsEmptyInput(points)
       THEN pc' = "done" /\ result' = <<>>
       ELSE pc' = "parsePoints" /\ UNCHANGED result
  /\ UNCHANGED wrapperVars
  /\ UNCHANGED accessVars
  /\ UNCHANGED <<variant, points, err, idx, parsedPoints, maxX, maxY, gridBuilt,
                 grid, x, y, stack, seen, openEdges, perimeters,
                 expanded, traces>>

(***************************************************************************)
(* parsePoints                                                             *)
(***************************************************************************)
\* what points.forEach does for a value that is no array: the JS module tests
\* Array.isArray first, the TS module calls the missing method
NotArrayError(v) ==
  [kind |-> "TypeError",
   message |-> IF v = "js" THEN TYPE_ERROR_MSG ELSE NO_FOREACH_MSG]

\* the declarations of parsePoints and the start of its forEach
ParsePointsBegin ==
  /\ pc = "parsePoints"
  /\ parsedPoints' = <<>>
  /\ maxX' = -1
  /\ maxY' = -1
  /\ IF points.tag # "array"
       THEN pc' = "thrown" /\ err' = NotArrayError(variant)
       ELSE pc' = "forEach" /\ UNCHANGED err
  /\ UNCHANGED wrapperVars
  /\ UNCHANGED accessVars
  /\ UNCHANGED <<variant, points, idx, gridBuilt, grid, x, y, stack, seen,
                 openEdges, perimeters, result, expanded, traces>>

\* the range check with the limit itself refused
CheckRangeExclusive(px, py) == px >= MAX_VALUE \/ py >= MAX_VALUE

\* gridPoint.x > MAX_VALUE || gridPoint.y > MAX_VALUE
CheckRange(px, py) == px > MAX_VALUE \/ py > MAX_VALUE

\* the coordinate check with the range tested before the shape is known to be
\* wrong: every string that fails the pattern is reported as out of range
CheckPointRangeFirst(v, point) ==
  IF ~point.isString
    THEN [kind |-> "TypeError",
          message |-> IF v = "js" THEN TYPE_ERROR_MSG ELSE NO_MATCH_MSG,
          px |-> 0, py |-> 0]
  ELSE LET coords == Match(point.chars)
           px == ParseInt(coords.g1)
           py == ParseInt(coords.g2)
       IN  IF ~coords.ok \/ CheckRange(px, py)
             THEN [kind |-> "RangeError", message |-> RANGE_ERROR_MSG, px |-> 0, py |-> 0]
           ELSE [kind |-> "ok", message |-> "", px |-> px, py |-> py]

\* the body of the forEach callback for one element: the error it throws, or
\* the point it parsed
CheckPoint(v, point) ==
  IF ~point.isString
    THEN [kind |-> "TypeError",
          message |-> IF v = "js" THEN TYPE_ERROR_MSG ELSE NO_MATCH_MSG,
          px |-> 0, py |-> 0]
  ELSE LET coords == Match(point.chars)
           px == ParseInt(coords.g1)
           py == ParseInt(coords.g2)
       IN  IF ~coords.ok
             THEN [kind |-> "TypeError", message |-> TYPE_ERROR_MSG, px |-> 0, py |-> 0]
           ELSE IF CheckRange(px, py)
             THEN [kind |-> "RangeError", message |-> RANGE_ERROR_MSG, px |-> 0, py |-> 0]
           ELSE [kind |-> "ok", message |-> "", px |-> px, py |-> py]

Max(a, b) == IF a >= b THEN a ELSE b

\* a forEach that records the error of an invalid element and goes on to the
\* next element, so that the last invalid element decides the error
ForEachPointCollect ==
  /\ pc = "forEach"
  /\ idx < Len(points.elems)
  /\ LET r == CheckPoint(variant, points.elems[idx + 1])
     IN  /\ idx' = idx + 1
         /\ IF r.kind # "ok"
              THEN /\ err' = [kind |-> r.kind, message |-> r.message]
                   /\ pc' = IF idx + 1 = Len(points.elems) THEN "thrown" ELSE "forEach"
                   /\ UNCHANGED <<parsedPoints, maxX, maxY>>
              ELSE /\ parsedPoints' = Append(parsedPoints, <<r.px, r.py>>)
                   /\ maxX' = Max(maxX, r.px)
                   /\ maxY' = Max(maxY, r.py)
                   /\ pc' = IF idx + 1 = Len(points.elems) /\ err.kind # "none"
                              THEN "thrown" ELSE "forEach"
                   /\ UNCHANGED err
  /\ UNCHANGED wrapperVars
  /\ UNCHANGED accessVars
  /\ UNCHANGED <<variant, points, gridBuilt, grid, x, y, stack, seen, openEdges,
                 perimeters, result, expanded, traces>>

\* one call of the forEach callback
ForEachPoint ==
  /\ pc = "forEach"
  /\ idx < Len(points.elems)
  /\ LET r == CheckPoint(variant, points.elems[idx + 1])
     IN  /\ idx' = idx + 1
         /\ IF r.kind # "ok"
              THEN /\ pc' = "thrown"
                   /\ err' = [kind |-> r.kind, message |-> r.message]
                   /\ UNCHANGED <<parsedPoints, maxX, maxY>>
              ELSE /\ parsedPoints' = Append(parsedPoints, <<r.px, r.py>>)
                   /\ maxX' = Max(maxX, r.px)
                   /\ maxY' = Max(maxY, r.py)
                   /\ UNCHANGED <<pc, err>>
  /\ UNCHANGED wrapperVars
  /\ UNCHANGED accessVars
  /\ UNCHANGED <<variant, points, gridBuilt, grid, x, y, stack, seen, openEdges,
                 perimeters, result, expanded, traces>>

\* createEmptyGrid: the cells that hold 1 in a new (mx + 1) by (my + 1) array
createEmptyGrid(mx, my) == {}

\* the lengths of the array createEmptyGrid allocates: Array(x + 1) of
\* Array(y + 1)
GridSize(mx, my) == <<mx + 1, my + 1>>

\* a second forEach that ends at the first point it has already marked
PopulateStopsAtRepeat(g, pts) ==
  g \cup { pts[k] : k \in { j \in 1..Len(pts) :
                              \A a, b \in 1..j : a # b => pts[a] # pts[b] } }

\* the second forEach: grid[point.x][point.y] = 1 for every parsed point
Populate(g, pts) == g \cup { pts[k] : k \in 1..Len(pts) }

\* the end of parsePoints, and the start of findParcels on what it returns
BuildGrid ==
  /\ pc = "forEach"
  /\ idx = Len(points.elems)
  /\ grid' = Populate(createEmptyGrid(maxX, maxY), parsedPoints)
  /\ gridBuilt' = TRUE
  /\ gridSize' = GridSize(maxX, maxY)
  /\ touched' = { parsedPoints[k] : k \in 1..Len(parsedPoints) }
  /\ UNCHANGED popLog
  /\ perimeters' = <<>>
  /\ x' = 0
  /\ y' = 0
  /\ pc' = "scan"
  /\ UNCHANGED wrapperVars
  /\ UNCHANGED <<variant, points, err, idx, parsedPoints, maxX, maxY, stack, seen,
                 openEdges, result, expanded, traces>>

(***************************************************************************)
(* traceParcel                                                             *)
(***************************************************************************)
\* a test of the seen set that never finds a coordinate
HasNotBeenSeenAlways(sn, n) == TRUE

\* hasNotBeenSeen(x, y): !seen.has([x, y].join(' '))
HasNotBeenSeen(sn, n) == Key(n[1], n[2]) \notin sn

\* isNewNeighbour(x, y): grid[x][y] && hasNotBeenSeen(x, y)
IsNewNeighbour(g, sn, n) == n \in g /\ HasNotBeenSeen(sn, n)

\* the four looks with a look left that is taken in the first column too
LooksLeftUnguarded(p, mx, my) ==
  << [n |-> <<p[1] - 1, p[2]>>, inside |-> p[1] >= 0],
     [n |-> <<p[1] + 1, p[2]>>, inside |-> p[1] < mx],
     [n |-> <<p[1], p[2] - 1>>, inside |-> p[2] > 0],
     [n |-> <<p[1], p[2] + 1>>, inside |-> p[2] < my] >>

\* the four looks without the look up
LooksNoUp(p, mx, my) ==
  << [n |-> <<p[1] - 1, p[2]>>, inside |-> p[1] > 0],
     [n |-> <<p[1] + 1, p[2]>>, inside |-> p[1] < mx],
     [n |-> <<p[1], p[2] - 1>>, inside |-> p[2] > 0] >>

\* the four looks of an evaluated point, in the order of the code: left,
\* right, down, up; inside is the bound test that guards the grid read
Looks(p, mx, my) ==
  << [n |-> <<p[1] - 1, p[2]>>, inside |-> p[1] > 0],
     [n |-> <<p[1] + 1, p[2]>>, inside |-> p[1] < mx],
     [n |-> <<p[1], p[2] - 1>>, inside |-> p[2] > 0],
     [n |-> <<p[1], p[2] + 1>>, inside |-> p[2] < my] >>

\* the if of a look: the neighbour is pushed
LookPushes(g, sn, d) == d.inside /\ IsNewNeighbour(g, sn, d.n)

\* an else branch that counts an edge whatever the seen set holds
LookCountsSeenToo(g, sn, d) == ~LookPushes(g, sn, d)

\* an else branch that counts an edge only for a neighbour inside the grid
LookCountsInsideOnly(g, sn, d) ==
  d.inside /\ ~LookPushes(g, sn, d) /\ HasNotBeenSeen(sn, d.n)

\* the else-if of a look: openEdges++
LookCounts(g, sn, d) == ~LookPushes(g, sn, d) /\ HasNotBeenSeen(sn, d.n)

\* the points the looks push, in order
RECURSIVE Pushes(_, _, _)
Pushes(g, sn, ds) ==
  IF ds = <<>> THEN <<>>
  ELSE (IF LookPushes(g, sn, Head(ds)) THEN <<Head(ds).n>> ELSE <<>>)
         \o Pushes(g, sn, Tail(ds))

\* the number of times the looks increment openEdges
RECURSIVE Edges(_, _, _)
Edges(g, sn, ds) ==
  IF ds = <<>> THEN 0
  ELSE (IF LookCounts(g, sn, Head(ds)) THEN 1 ELSE 0) + Edges(g, sn, Tail(ds))

\* the grid cells the looks read: isNewNeighbour runs, and reads the grid,
\* exactly when the bound test before the && holds
LookReads(ds) == { ds[k].n : k \in { j \in 1..Len(ds) : ds[j].inside } }

\* a pop that clears the cell in the first column only
UnsetFirstColumnOnly(g, p) == IF p[1] = 0 THEN g \ {p} ELSE g

\* a pop that leaves the cell set
UnsetNothing(g, p) == g

\* gridData.grid[evaluatedPoint.x][evaluatedPoint.y] = 0
Unset(g, p) == g \ {p}

\* an iteration that pops nothing and changes nothing
TraceStepNoPop ==
  /\ pc = "trace"
  /\ stack # <<>>
  /\ UNCHANGED vars

\* one iteration of the while loop: pop, unset, and expand if not seen
TraceStep ==
  /\ pc = "trace"
  /\ stack # <<>>
  /\ LET p == stack[Len(stack)]
         rest == SubSeq(stack, 1, Len(stack) - 1)
         g == Unset(grid, p)
         ds == Looks(p, maxX, maxY)
     IN  /\ grid' = g
         /\ IF HasNotBeenSeen(seen, p)
              THEN /\ stack' = rest \o Pushes(g, seen, ds)
                   /\ openEdges' = openEdges + Edges(g, seen, ds)
                   /\ seen' = seen \cup {Key(p[1], p[2])}
                   /\ expanded' = expanded \cup {p}
                   /\ touched' = {p} \cup LookReads(ds)
                   /\ popLog' = Append(popLog, [p |-> p, first |-> TRUE,
                                                pushed |-> Pushes(g, seen, ds),
                                                edges |-> Edges(g, seen, ds)])
              ELSE /\ stack' = rest
                   /\ touched' = {p}
                   /\ popLog' = Append(popLog, [p |-> p, first |-> FALSE,
                                                pushed |-> <<>>, edges |-> 0])
                   /\ UNCHANGED <<openEdges, seen, expanded>>
  /\ UNCHANGED gridSize
  /\ UNCHANGED wrapperVars
  /\ UNCHANGED <<variant, points, pc, err, idx, parsedPoints, maxX, maxY, gridBuilt,
                 x, y, perimeters, result, traces>>

(***************************************************************************)
(* findParcels                                                             *)
(***************************************************************************)
\* the loops with x inside and y outside
NextXYRowFirst(cx, cy, mx, my) ==
  IF cx < mx THEN <<cx + 1, cy>>
  ELSE IF cy < my THEN <<0, cy + 1>>
  ELSE <<mx + 1, 0>>

\* y++ of the inner loop, and x++ of the outer loop when the inner loop ends
NextXY(cx, cy, mx, my) == IF cy < my THEN <<cx, cy + 1>> ELSE <<cx + 1, 0>>

\* the body of the inner loop at (x, y): skip an empty cell, or call traceParcel
ScanCell ==
  /\ pc = "scan"
  /\ x <= maxX
  /\ y <= maxY
  /\ touched' = { <<x, y>> }
  /\ IF <<x, y>> \in grid
       THEN /\ pc' = "trace"
            /\ stack' = << <<x, y>> >>
            /\ seen' = {}
            /\ openEdges' = 0
            /\ expanded' = {}
            /\ popLog' = <<>>
            /\ UNCHANGED <<x, y>>
       ELSE /\ x' = NextXY(x, y, maxX, maxY)[1]
            /\ y' = NextXY(x, y, maxX, maxY)[2]
            /\ UNCHANGED <<pc, stack, seen, openEdges, expanded, popLog>>
  /\ UNCHANGED gridSize
  /\ UNCHANGED wrapperVars
  /\ UNCHANGED <<variant, points, err, idx, parsedPoints, maxX, maxY, gridBuilt,
                 grid, perimeters, result, traces>>

\* traceParcel returns openEdges, which findParcels pushes on perimeters
TraceReturn ==
  /\ pc = "trace"
  /\ stack = <<>>
  /\ perimeters' = Append(perimeters, openEdges)
  /\ traces' = Append(traces, expanded)
  /\ x' = NextXY(x, y, maxX, maxY)[1]
  /\ y' = NextXY(x, y, maxX, maxY)[2]
  /\ pc' = "scan"
  /\ UNCHANGED wrapperVars
  /\ UNCHANGED accessVars
  /\ UNCHANGED <<variant, points, err, idx, parsedPoints, maxX, maxY, gridBuilt,
                 grid, stack, seen, openEdges, result, expanded>>

\* the loops are over: findParcels and the entry point return perimeters
FindParcelsReturn ==
  /\ pc = "scan"
  /\ x > maxX
  /\ result' = perimeters
  /\ pc' = "done"
  /\ UNCHANGED wrapperVars
  /\ UNCHANGED accessVars
  /\ UNCHANGED <<variant, points, err, idx, parsedPoints, maxX, maxY, gridBuilt,
                 grid, x, y, stack, seen, openEdges, perimeters, expanded, traces>>

(***************************************************************************)
(* The command-line wrapper (main.ts, main.js)                             *)
(***************************************************************************)
libVars == <<variant, err, idx, parsedPoints, maxX, maxY, gridBuilt, grid, x, y,
             stack, seen, openEdges, perimeters, result, expanded, traces>>

\* process.argv.slice(2)
Slice2(a) == SubSeq(a, 3, Len(a))

\* perimeters.join(',')
RECURSIVE Join(_)
Join(ps) ==
  IF ps = <<>> THEN <<>>
  ELSE IF Len(ps) = 1 THEN NumStr(ps[1])
  ELSE NumStr(ps[1]) \o <<",">> \o Join(Tail(ps))

\* the line the try block logs for a list of perimeters
Report(ps) ==
  IF Len(ps) = 0 THEN [template |-> NO_PARCELS_MSG, args |-> <<>>]
  ELSE IF Len(ps) = 1 THEN [template |-> ONE_PARCEL_MSG, args |-> <<NumStr(ps[1])>>]
  ELSE [template |-> PARCELS_MSG, args |-> <<NumStr(Len(ps)), Join(ps)>>]

\* the argument test, and the call of the entry point on the sliced arguments
Main ==
  /\ pc = "main"
  /\ IF Len(argv) < 3
       THEN /\ stderr' = Append(stderr, [template |-> USAGE_MSG, args |-> <<>>])
            /\ exitCode' = 1
            /\ pc' = "exited"
            /\ UNCHANGED points
       ELSE /\ points' = ArrayOf(Slice2(argv))
            /\ pc' = "call"
            /\ UNCHANGED <<stderr, exitCode>>
  /\ UNCHANGED <<caller, argv, stdout>>
  /\ UNCHANGED libVars
  /\ UNCHANGED accessVars

\* the entry point returned: the try block logs its line, process.exit(0)
MainReport ==
  /\ pc = "done"
  /\ caller = "main"
  /\ stdout' = Append(stdout, Report(result))
  /\ exitCode' = 0
  /\ pc' = "exited"
  /\ UNCHANGED <<caller, argv, stderr, points>>
  /\ UNCHANGED libVars
  /\ UNCHANGED accessVars

\* a catch block that ends the process with status 1
MainCatchExitsOne ==
  /\ pc = "thrown"
  /\ caller = "main"
  /\ stderr' = Append(stderr, [template |-> ERROR_FORMAT, args |-> <<err.message>>])
  /\ exitCode' = 1
  /\ pc' = "exited"
  /\ UNCHANGED <<caller, argv, stdout, points>>
  /\ UNCHANGED libVars
  /\ UNCHANGED accessVars

\* the entry point threw: the catch block writes the error, process.exit(0)
MainCatch ==
  /\ pc = "thrown"
  /\ caller = "main"
  /\ stderr' = Append(stderr, [template |-> ERROR_FORMAT, args |-> <<err.message>>])
  /\ exitCode' = 0
  /\ pc' = "exited"
  /\ UNCHANGED <<caller, argv, stdout, points>>
  /\ UNCHANGED libVars
  /\ UNCHANGED accessVars

(***************************************************************************)
(* Specifications                                                          *)
(***************************************************************************)
Next ==
  \/ Compute
  \/ ParsePointsBegin
  \/ ForEachPoint
  \/ BuildGrid
  \/ ScanCell
  \/ TraceStep
  \/ TraceReturn
  \/ FindParcelsReturn

\* every set of plots of the small grid
Spec == Init /\ [][Next]_vars

\* one-element inputs over every short string, the inputs of the tests, short
\* lists of valid and invalid elements, and inputs that are no array
SpecParse == InitParse /\ [][Next]_vars

\* a run of the process: the wrapper, and the module it calls
NextMain ==
  \/ Main
  \/ MainReport
  \/ MainCatch
  \/ Next

\* command lines of up to MaxArgs words
SpecMain == InitMain /\ [][NextMain]_vars

\* a step of findParcels or of the traceParcel it calls
FindParcelsStep == ScanCell \/ TraceStep \/ TraceReturn \/ FindParcelsReturn

\* findParcels runs on one thread to completion: an iteration of its loops or
\* of the while loop of traceParcel that can be taken is taken
SpecLive == InitLive /\ [][Next]_vars /\ WF_vars(FindParcelsStep)

\* lists of plots in every order, with repeated plots
SpecOrder == InitOrder /\ [][Next]_vars

(***************************************************************************)
(* Parcels and perimeters, as the claims define them                       *)
(***************************************************************************)
\* the distinct coordinates of a validated input
InputCells == { parsedPoints[k] : k \in 1..Len(parsedPoints) }

Adjacent(a, b) ==
  \/ a[1] = b[1] /\ (a[2] = b[2] + 1 \/ b[2] = a[2] + 1)
  \/ a[2] = b[2] /\ (a[1] = b[1] + 1 \/ b[1] = a[1] + 1)

\* the cells of S that a 4-directional path inside S joins to a cell of C
RECURSIVE Grow(_, _)
Grow(C, S) ==
  LET more == { c \in S \ C : \E d \in C : Adjacent(c, d) }
  IN  IF more = {} THEN C ELSE Grow(C \cup more, S)

\* the maximal 4-connected groups of S
Components(S) == { Grow({c}, S) : c \in S }

AxisDirections == { <<-1, 0>>, <<1, 0>>, <<0, -1>>, <<0, 1>> }

\* the (cell, direction) pairs of C whose neighbour is no cell of S
BoundaryEdges(C, S) ==
  { e \in C \X AxisDirections : <<e[1][1] + e[2][1], e[1][2] + e[2][2]>> \notin S }

Perimeter(C, S) == Cardinality(BoundaryEdges(C, S))

TraceCells == UNION { traces[k] : k \in 1..Len(traces) }

(***************************************************************************)
(* C1                                                                      *)
(***************************************************************************)
\* C1: for a non-empty list of valid coordinates the result has one perimeter
\* per maximal 4-connected group of distinct occupied cells: the traces are
\* exactly the components, every occupied cell is consumed by exactly one
\* trace, and a trace never covers two components or a part of one.
C1_OnePerimeterPerComponent ==
  (pc = "done" /\ ~IsEmptyInput(points)) =>
    /\ Len(result) = Cardinality(Components(InputCells))
    /\ Len(traces) = Len(result)
    /\ \A k \in 1..Len(traces) : traces[k] \in Components(InputCells)
    /\ \A j, k \in 1..Len(traces) : j # k => traces[j] \cap traces[k] = {}
    /\ TraceCells = InputCells
    /\ grid = {}

\* three components are found, one of them of three cells or more
C1_Witness ==
  /\ pc = "done"
  /\ Len(result) = 3
  /\ \E k \in 1..Len(traces) : Cardinality(traces[k]) >= 3

(***************************************************************************)
(* C2                                                                      *)
(***************************************************************************)
LShape == { <<0, 0>>, <<0, 1>>, <<1, 1>> }

Rectangle2x3 == { <<0, 0>>, <<0, 1>>, <<0, 2>>, <<1, 0>>, <<1, 1>>, <<1, 2>> }

Arch == { <<0, 0>>, <<0, 1>>, <<1, 1>>, <<2, 1>>, <<2, 0>> }

\* a ring of eight cells around the empty cell (1, 1)
Ring == ((0..2) \X (0..2)) \ { <<1, 1>> }

\* C2: the value traceParcel returns for a parcel is the number of (cell,
\* direction) pairs of the parcel whose neighbour is outside the grid or
\* was not occupied in the input: edges between two cells of the parcel are
\* not counted, edges facing an enclosed empty cell are.  An L of 3 cells
\* gives 8, a filled 2x3 rectangle 10, an arch of 5 cells 12.
C2_PerimeterIsBoundaryEdgeCount ==
  /\ \A k \in 1..Len(perimeters) :
       /\ k <= Len(traces)
       /\ traces[k] \in Components(InputCells)
       /\ perimeters[k] = Perimeter(traces[k], InputCells)
  /\ pc = "done" =>
       /\ result = perimeters
       /\ InputCells = LShape => result = <<8>>
       /\ InputCells = Rectangle2x3 => result = <<10>>
       /\ InputCells = Arch => result = <<12>>

\* the ring is traced: its 12 outer edges and the 4 edges of its hole
C2_Witness == pc = "done" /\ InputCells = Ring /\ result = <<16>>

(***************************************************************************)
(* C3                                                                      *)
(***************************************************************************)
\* C3: perimeters come in first-discovery order of the scan (x ascending
\* outside, y ascending inside): the perimeter of parcel A precedes that of
\* parcel B exactly when the smallest cell of A in (x, then y) order is
\* smaller than the smallest cell of B.  ["0,0","0,1","0,2","2,0"] gives [8,4].
C3_DiscoveryOrder ==
  /\ Len(perimeters) = Len(traces)
  /\ \A j, k \in 1..Len(traces) :
       /\ traces[j] # {}
       /\ perimeters[j] = Perimeter(traces[j], InputCells)
       /\ (j < k) <=> CellLess(MinCell(traces[j]), MinCell(traces[k]))
  /\ pc = "done" =>
       /\ result = perimeters
       /\ points = ArrayOf(<<Str(<<"0", ",", "0">>), Str(<<"0", ",", "1">>),
                             Str(<<"0", ",", "2">>), Str(<<"2", ",", "0">>)>>)
            => result = <<8, 4>>

\* the instance of the claim, listed in the order of the test
C3_Witness ==
  /\ pc = "done"
  /\ points = ArrayOf(<<Str(<<"0", ",", "0">>), Str(<<"0", ",", "1">>),
                        Str(<<"0", ",", "2">>), Str(<<"2", ",", "0">>)>>)
  /\ result = <<8, 4>>

(***************************************************************************)
(* C10                                                                     *)
(***************************************************************************)
\* C10: every perimeter emitted for a valid input is an even integer that is
\* at least 4.
C10_PerimetersEvenAtLeast4 ==
  /\ \A k \in 1..Len(perimeters) : perimeters[k] % 2 = 0 /\ perimeters[k] >= 4
  /\ \A k \in 1..Len(result) : result[k] % 2 = 0 /\ result[k] >= 4

\* a result with perimeters 4 and 10
C10_Witness ==
  /\ pc = "done"
  /\ \E j, k \in 1..Len(result) : result[j] = 4 /\ result[k] = 10

(***************************************************************************)
(* C11                                                                     *)
(***************************************************************************)
\* the perimeters of the components of S that meet R, in the order of their
\* smallest cells: a function of the set S alone
RECURSIVE PerimetersOf(_, _)
PerimetersOf(R, S) ==
  IF R = {} THEN <<>>
  ELSE LET C == Grow({MinCell(R)}, S)
       IN  <<Perimeter(C, S)>> \o PerimetersOf(R \ C, S)

\* C11: the result depends only on the set of distinct coordinates of the
\* input.  The grid that parsePoints hands to findParcels holds exactly the
\* distinct coordinates, however often and in whatever order they are listed,
\* and the result is the perimeter list determined by that set.
C11_ResultDependsOnCoordinateSet ==
  /\ (pc = "scan" /\ x = 0 /\ y = 0) => grid = InputCells
  /\ (pc = "done" /\ gridBuilt) => result = PerimetersOf(InputCells, InputCells)

\* a finished run on a list that repeats a coordinate, is neither ascending
\* nor descending, and holds two parcels
C11_Witness ==
  /\ pc = "done"
  /\ Len(parsedPoints) > Cardinality(InputCells)
  /\ \E j, k \in 1..(Len(parsedPoints) - 1) :
       /\ CellLess(parsedPoints[j], parsedPoints[j + 1])
       /\ CellLess(parsedPoints[k + 1], parsedPoints[k])
  /\ Len(result) = 2

(***************************************************************************)
(* C12                                                                     *)
(***************************************************************************)
\* C12: when findParcels returns, no cell of the grid is occupied; and
\* whenever the scan is about to examine the cell (x, y), every cell before
\* (x, y) in scan order (x ascending outside, y ascending inside) is
\* unoccupied.
C12_GridConsumedInScanOrder ==
  /\ (pc = "scan" /\ x <= maxX) => \A c \in grid : ~CellLess(c, <<x, y>>)
  /\ (pc = "scan" /\ x > maxX) => grid = {}
  /\ (pc = "done" /\ gridBuilt) => grid = {}

\* the scan stands on the first cell of a second parcel, after a parcel of
\* two cells or more before it has been traced and cleared
C12_Witness ==
  /\ pc = "scan"
  /\ x <= maxX
  /\ <<x, y>> \in grid
  /\ Len(traces) = 1
  /\ Cardinality(traces[1]) >= 2
  /\ \A c \in traces[1] : CellLess(c, <<x, y>>) /\ c \notin grid

(***************************************************************************)
(* C13                                                                     *)
(***************************************************************************)
\* C13: the process ends with status 1 when no coordinate argument is given
\* and with status 0 in every other run; a run in which validation throws
\* writes "ERROR: <message>" to the error stream, ends with status 0 and
\* prints no parcel message.
C13_ExitStatus ==
  /\ exitCode \in {-1, 0, 1}
  /\ (exitCode # -1) <=> (pc = "exited")
  /\ pc = "exited" =>
       /\ (exitCode = 1) <=> (Len(argv) < 3)
       /\ (exitCode = 0) <=> (Len(argv) >= 3)
       /\ Len(argv) < 3 => Len(stdout) = 0 /\ err.kind = "none"
       /\ err.kind # "none" =>
            /\ exitCode = 0
            /\ Len(stdout) = 0
            /\ Len(stderr) = 1
            /\ stderr[1].template = ERROR_FORMAT
            /\ stderr[1].args = <<err.message>>
       /\ (Len(argv) >= 3 /\ err.kind = "none") =>
            Len(stdout) = 1 /\ Len(stderr) = 0

\* the process has ended after a RangeError thrown at the second word
C13_Witness ==
  /\ pc = "exited"
  /\ exitCode = 0
  /\ err = [kind |-> "RangeError", message |-> RANGE_ERROR_MSG]
  /\ idx = 2
  /\ Len(stderr) = 1
  /\ Len(stdout) = 0

(***************************************************************************)
(* C14                                                                     *)
(***************************************************************************)
\* the pops of the current trace that expanded their cell
Expansions == { j \in 1..Len(popLog) : popLog[j].first }

RECURSIVE SumEdges(_)
SumEdges(log) ==
  IF log = <<>> THEN 0 ELSE log[Len(log)].edges + SumEdges(SubSeq(log, 1, Len(log) - 1))

\* C14: within one trace a cell is expanded on its first pop and on no later
\* pop; a later pop of it pushes nothing and leaves the perimeter counter
\* alone; the seen set holds exactly the keys of the expanded cells; and when
\* the trace ends every cell of the parcel has been expanded exactly once.
C14_ExpandedExactlyOnce ==
  pc = "trace" =>
    /\ \A j \in 1..Len(popLog) :
         popLog[j].first <=> (\A i \in 1..(j - 1) : popLog[i].p # popLog[j].p)
    /\ \A i, j \in Expansions : popLog[i].p = popLog[j].p => i = j
    /\ \A j \in 1..Len(popLog) :
         ~popLog[j].first => popLog[j].pushed = <<>> /\ popLog[j].edges = 0
    /\ expanded = { popLog[j].p : j \in Expansions }
    /\ seen = { Key(c[1], c[2]) : c \in expanded }
    /\ \A c \in (0..maxX) \X (0..maxY) : (Key(c[1], c[2]) \in seen) <=> (c \in expanded)
    /\ openEdges = SumEdges(popLog)
    /\ stack = <<>> =>
         /\ expanded = Grow({<<x, y>>}, InputCells)
         /\ Cardinality(Expansions) = Cardinality(expanded)

\* a trace of a parcel of four cells or more has ended, and one of its cells
\* was popped again after its expansion
C14_Witness ==
  /\ pc = "trace"
  /\ stack = <<>>
  /\ Cardinality(expanded) >= 4
  /\ \E j \in 1..Len(popLog) : ~popLog[j].first

(***************************************************************************)
(* C15                                                                     *)
(***************************************************************************)
\* the parcel of the cell the running trace started from
TracedParcel == Grow({<<x, y>>}, InputCells)

\* the pops done and the pops still owed never exceed 4n + 1 for a parcel of
\* n cells: an expansion pushes at most four entries, a repeated pop none,
\* and only cells of the parcel are expanded
PopBound ==
  pc = "trace" =>
    /\ \A j \in 1..Len(popLog) : Len(popLog[j].pushed) <= 4
    /\ expanded \subseteq TracedParcel
    /\ Len(popLog) + Len(stack) <= 4 * Cardinality(expanded) + 1
    /\ Len(popLog) + Len(stack) <= 4 * Cardinality(TracedParcel) + 1

\* C15: every trace reaches an empty stack and the whole scan ends; a trace
\* of a parcel of n cells performs at most 4n + 1 pops.
C15_TracesTerminate ==
  /\ []PopBound
  /\ (pc = "trace") ~> (pc = "trace" /\ stack = <<>>)
  /\ (pc = "scan") ~> (pc = "done")

\* a trace of a parcel of six cells or more has ended with an empty stack
\* after more pops than the parcel has cells
C15_Witness ==
  /\ pc = "trace"
  /\ stack = <<>>
  /\ Cardinality(expanded) >= 6
  /\ Len(popLog) >= Cardinality(expanded) + 2
  /\ Len(popLog) <= 4 * Cardinality(expanded) + 1

(***************************************************************************)
(* C16                                                                     *)
(***************************************************************************)
\* the largest value of axis a (1 for x, 2 for y) among the cells of S
AxisMax(S, a) == CHOOSE m \in { c[a] : c \in S } : \A c \in S : c[a] <= m

\* an index pair inside the allocated array
InGrid(c) == c[1] \in 0..(gridSize[1] - 1) /\ c[2] \in 0..(gridSize[2] - 1)

\* C16: once the grid is built, maxX and maxY are the largest x and the
\* largest y of the input, each taken on its own, and the grid has exactly
\* (maxX + 1) by (maxY + 1) cells; every grid cell written while the grid is
\* populated, read by the scan, written by a pop or read by a neighbour look
\* has its indices in [0..maxX] x [0..maxY], and so has every coordinate on
\* the stack.
C16_GridAccessInBounds ==
  /\ \A c \in touched : InGrid(c)
  /\ \A c \in grid : InGrid(c)
  /\ ~gridBuilt => touched = {} /\ gridSize = <<0, 0>>
  /\ gridBuilt =>
       /\ maxX = AxisMax(InputCells, 1)
       /\ maxY = AxisMax(InputCells, 2)
       /\ gridSize = <<maxX + 1, maxY + 1>>
       /\ \A c \in touched : c[1] \in 0..maxX /\ c[2] \in 0..maxY
  /\ pc = "trace" =>
       \A k \in 1..Len(stack) : stack[k][1] \in 0..maxX /\ stack[k][2] \in 0..maxY
  /\ \A j \in 1..Len(popLog) : \A k \in 1..Len(popLog[j].pushed) :
       InGrid(popLog[j].pushed[k])
  /\ (pc = "scan" /\ x <= maxX) => InGrid(<<x, y>>)

\* a trace on a 3 by 3 grid whose largest x and largest y come from
\* different plots (the corner (maxX, maxY) is no plot) has just expanded a
\* cell of the last column: the looks left, down and up read the grid, the
\* look right does not
C16_Witness ==
  /\ pc = "trace"
  /\ gridSize = <<3, 3>>
  /\ <<maxX, maxY>> \notin InputCells
  /\ Len(popLog) >= 2
  /\ popLog[Len(popLog)].first
  /\ popLog[Len(popLog)].p = <<2, 1>>
  /\ touched = { <<2, 1>>, <<1, 1>>, <<2, 0>>, <<2, 2>> }

(***************************************************************************)
(* Shapes and classes of elements, as the claims define them               *)
(***************************************************************************)
AllSpaces(s, i, j) == \A k \in i..j : IsSpace(s[k])

AllDigits(s, i, j) == \A k \in i..j : IsDigit(s[k])

\* s is: white space (only if lead), digits, white space, a comma, white
\* space, digits and nothing else; a, b, c, d are the ends of the first
\* white space, the first digits, the second white space and the third
ShapeOf(s, lead) ==
  \E a \in 0..(IF lead THEN Len(s) ELSE 0) :
    /\ AllSpaces(s, 1, a)
    /\ \E b \in (a + 1)..Len(s) :
         /\ AllDigits(s, a + 1, b)
         /\ \E c \in b..(Len(s) - 1) :
              /\ AllSpaces(s, b + 1, c)
              /\ s[c + 1] = ","
              /\ \E d \in (c + 1)..(Len(s) - 1) :
                   /\ AllSpaces(s, c + 2, d)
                   /\ AllDigits(s, d + 1, Len(s))

\* the end of the digits that start s, and the start of the digits that end s
FirstDigitsEnd(s) ==
  CHOOSE b \in 1..Len(s) : AllDigits(s, 1, b) /\ (b = Len(s) \/ ~IsDigit(s[b + 1]))

LastDigitsStart(s) ==
  CHOOSE d \in 1..Len(s) : AllDigits(s, d, Len(s)) /\ (d = 1 \/ ~IsDigit(s[d - 1]))

\* the two numbers of a string of the shape digits, white space, comma, white
\* space, digits
CoordOf(s) ==
  << ParseInt(SubSeq(s, 1, FirstDigitsEnd(s))),
     ParseInt(SubSeq(s, LastDigitsStart(s), Len(s))) >>

\* malformed: not a string or not of the shape; range: of the shape with a
\* value above 99; valid otherwise
ElemClass(e) ==
  IF ~e.isString \/ ~ShapeOf(e.chars, FALSE) THEN "malformed"
  ELSE IF CoordOf(e.chars)[1] > 99 \/ CoordOf(e.chars)[2] > 99 THEN "range"
  ELSE "valid"

\* index of the first element that is not valid, 0 if there is none
FirstInvalid(elems) ==
  IF \A k \in 1..Len(elems) : ElemClass(elems[k]) = "valid" THEN 0
  ELSE CHOOSE k \in 1..Len(elems) :
         /\ ElemClass(elems[k]) # "valid"
         /\ \A j \in 1..(k - 1) : ElemClass(elems[j]) = "valid"

\* the call has not got past validation and never will return perimeters
NoGridNoResult ==
  /\ pc \in {"call", "parsePoints", "forEach", "thrown"}
  /\ ~gridBuilt
  /\ grid = {}
  /\ perimeters = <<>>
  /\ result = <<>>

TypeErrorExact == [kind |-> "TypeError", message |-> TYPE_ERROR_MSG]

RangeErrorExact == [kind |-> "RangeError", message |-> RANGE_ERROR_MSG]

C5_AnyOutOfRangeElementRangeError ==
  (points.tag = "array"
     /\ \E k \in 1..Len(points.elems) : ElemClass(points.elems[k]) = "range")
  => /\ NoGridNoResult
     /\ pc = "thrown" => err = RangeErrorExact

\* C5 as amended: every input whose first invalid element is a coordinate of
\* the right shape with x or y above 99 fails with a RangeError whose message
\* is exactly RANGE_ERROR_MSG, and a coordinate with both values in 0..99
\* (0 and 99 included) passes the range check.
C5_FirstOutOfRangeIsRangeError ==
  /\ (points.tag = "array" /\ FirstInvalid(points.elems) > 0
        /\ ElemClass(points.elems[FirstInvalid(points.elems)]) = "range")
     => /\ NoGridNoResult
        /\ pc = "thrown" => err = RangeErrorExact
  /\ (pc = "thrown" /\ err.kind = "RangeError")
     => /\ idx \in 1..Len(points.elems)
        /\ ElemClass(points.elems[idx]) = "range"
  /\ \A k \in 1..Len(parsedPoints) :
       parsedPoints[k][1] \in 0..99 /\ parsedPoints[k][2] \in 0..99

\* a valid element was accepted and the second element, out of range, has
\* made the call fail
C5_Witness ==
  /\ pc = "thrown"
  /\ err = RangeErrorExact
  /\ Len(points.elems) = 2
  /\ idx = 2
  /\ Len(parsedPoints) = 1

(***************************************************************************)
(* C6                                                                      *)
(***************************************************************************)
\* the error the claim expects of an invalid element taken alone
ExpectedError(v, e) ==
  IF ElemClass(e) = "range" THEN RangeErrorExact
  ELSE IF e.isString \/ v = "js" THEN TypeErrorExact
  ELSE [kind |-> "TypeError", message |-> NO_MATCH_MSG]

\* C6: validation is fail-fast and precedes the grid: the elements are
\* checked in input order, the first invalid element alone decides the error
\* (kind and message), no element after it is examined, and no grid is
\* allocated and no perimeter returned when an element is invalid.
C6_FailFastBeforeGrid ==
  points.tag = "array" =>
    /\ idx <= Len(points.elems)
    /\ Len(parsedPoints) = (IF pc = "thrown" THEN idx - 1 ELSE idx)
    /\ \A k \in 1..Len(parsedPoints) : parsedPoints[k] = CoordOf(points.elems[k].chars)
    /\ FirstInvalid(points.elems) > 0 =>
         /\ idx <= FirstInvalid(points.elems)
         /\ NoGridNoResult
         /\ (pc = "thrown") <=> (idx = FirstInvalid(points.elems))
         /\ pc = "thrown" =>
              err = ExpectedError(variant, points.elems[FirstInvalid(points.elems)])
    /\ FirstInvalid(points.elems) = 0 => (pc # "thrown" /\ err.kind = "none")

\* the first element, out of range, has made the call fail; the second, which
\* is malformed, was never examined
C6_Witness ==
  /\ pc = "thrown"
  /\ Len(points.elems) = 2
  /\ idx = 1
  /\ err = RangeErrorExact
  /\ ElemClass(points.elems[2]) = "malformed"

(***************************************************************************)
(* C7                                                                      *)
(***************************************************************************)
\* element k was examined and the shape check threw for it
ShapeRejected(k) == pc = "thrown" /\ idx = k /\ err.kind = "TypeError"

\* C7 as claimed: an element is accepted exactly when it is optional white
\* space, digits, optional white space, a comma, optional white space,
\* digits and nothing else, so white space before the first number is
\* accepted.
C7_AcceptedIffShapeWithLeadingSpace ==
  points.tag = "array" =>
    \A k \in 1..idx :
      points.elems[k].isString =>
        (ShapeOf(points.elems[k].chars, TRUE) <=> ~ShapeRejected(k))

\* C7 as amended: an element is accepted exactly when it is digits, optional
\* white space, a comma, optional white space, digits and nothing else;
\* white space before the first number, white space after the last number,
\* a sign and any other character are rejected.
C7_AcceptedIffShape ==
  points.tag = "array" =>
    \A k \in 1..idx :
      points.elems[k].isString =>
        (ShapeOf(points.elems[k].chars, FALSE) <=> ~ShapeRejected(k))

\* " 0,0" was examined and rejected by the shape check
C7_Witness ==
  /\ ShapeRejected(1)
  /\ points = ArrayOf(<<Str(<<" ", "0", ",", "0">>)>>)

(***************************************************************************)
(* C8                                                                      *)
(***************************************************************************)
\* C8: for an empty input (an empty array, in the JS module a missing
\* argument too) the entry point returns an empty array, validates nothing
\* and constructs no grid.
C8_EmptyInputShortCircuits ==
  IsEmptyInput(points) =>
    /\ pc \in {"call", "done"}
    /\ idx = 0
    /\ parsedPoints = <<>>
    /\ ~gridBuilt
    /\ err.kind = "none"
    /\ result = <<>>

\* render() has returned
C8_Witness ==
  /\ pc = "done"
  /\ variant = "js"
  /\ points = Undefined
  /\ result = <<>>

(***************************************************************************)
(* C9                                                                      *)
(***************************************************************************)
\* C9: for a single valid coordinate (x, y) with 0 <= x, y <= 99 the result
\* is [4], the cell being the only one of the grid at x = maxX and y = maxY,
\* at the origin, or with one axis 0.
C9_SinglePointGivesFour ==
  (points.tag = "array" /\ Len(points.elems) = 1
     /\ ElemClass(points.elems[1]) = "valid")
  => /\ pc # "thrown"
     /\ pc \in {"scan", "trace", "done"} =>
          /\ parsedPoints = << <<maxX, maxY>> >>
          /\ CoordOf(points.elems[1].chars) = <<maxX, maxY>>
     /\ \A k \in 1..Len(perimeters) : perimeters[k] = 4
     /\ pc = "done" => result = <<4>>

\* ["99,99"] has given [4]
C9_Witness ==
  /\ pc = "done"
  /\ points = ArrayOf(<<Str(<<"9", "9", ",", "9", "9">>)>>)
  /\ parsedPoints = << <<99, 99>> >>
  /\ result = <<4>>

====
